---- MODULE Spec2Model ----
(***************************************************************************)
(* Model of src/app.py: a Streamlit script that tracks the browser         *)
(* location and lists nearby Wikipedia pages with AI summaries.            *)
(*                                                                         *)
(* The script is re-executed from its first line on every rerun.  The      *)
(* session state (st.session_state) survives reruns.  A rerun is started   *)
(* by st.experimental_rerun(), by a button click, or by a new value of the *)
(* streamlit_geolocation component.  A click or a component value that     *)
(* arrives while the script is executing stops the execution at the next   *)
(* call that emits an element (st.write, st.button, st.error, ...) and     *)
(* starts the rerun.  pc is the position of the script: "idle" when it has *)
(* finished, and otherwise a position just before such a call.             *)
(***************************************************************************)
EXTENDS Integers, Sequences, FiniteSets, TLC

VARIABLES
    \* st.session_state (src/app.py:89-101, 208)
    running, last_location, last_results, status_message, error_message,
    summaries, status_updated,
    \* module-level configuration (src/app.py:14-20)
    openai_enabled,
    \* st.cache_data store of get_openai_summary (src/app.py:56)
    memo,
    \* the geolocation component: its current value and whether it is shown
    location_data, mounted,
    \* the script: position, index of the results loop, countdown value
    pc, k, i,
    \* the browser: pending click, pending component rerun, rendered buttons
    click, rerun_requested, start_disabled, stop_disabled,
    \* history: the collaborators called by the last step, the value that
    \* get_openai_summary returned in the last step, the searches that used
    \* the current component value, the searches since status_updated was
    \* last set to False, the titles whose st.cache_data entry was produced
    \* before the current Result Set was stored, the page ids whose entry of
    \* summaries was taken from such an entry
    calls, returned, deliv_searches, searches_since_reset,
    stale_titles, stale_ids,
    \* audit: the page ids for which get_openai_summary was called since the
    \* current Result Set was stored, whether the countdown that followed the
    \* last search of this tracking session ran to its end, and the responses
    \* given to get_nearby_wikipedia_pages with what it returned
    fetched, cycle_resolved, search_log

session == <<running, last_location, last_results, status_message,
             error_message, summaries, status_updated>>
browser == <<click, rerun_requested, start_disabled, stop_disabled>>
stale == <<stale_titles, stale_ids>>
history == <<calls, returned, deliv_searches, searches_since_reset, stale>>
audit == <<fetched, cycle_resolved, search_log>>
vars == <<session, openai_enabled, memo, location_data, mounted, pc, k, i,
          browser, history, audit>>

-----------------------------------------------------------------------------
\* Configuration (src/app.py:10-11)
SEARCH_RADIUS_METERS == 1500
REFRESH_INTERVAL_SECONDS == 30

\* Saturation value of the history counters.
CountCap == 2

\* Python's None.
None == [kind |-> "None"]
\* The last step did not call get_openai_summary.
NoCall == [kind |-> "no call"]

\* Values of the position source.  Coordinates are in units of 1e-5 degree.
Fixes == {[latitude |-> 5150070, longitude |-> 12460],
          [latitude |-> 5150074, longitude |-> 12460]}
FixErrors == {[error |-> [code |-> 1, message |-> "User denied Geolocation"]],
              [error |-> [code |-> 2, message |-> "Position unavailable"]]}
LocationValues == {None} \cup Fixes \cup FixErrors

\* Pages of the geosearch responses: page 1 appears under two titles.
Page(id, title, dist) == [pageid |-> id, title |-> title, dist |-> dist]
ResultSets == { <<>>,
                <<Page(1, "Big Ben", 120)>>,
                <<Page(1, "Elizabeth Tower", 120)>>,
                <<Page(1, "Big Ben", 120), Page(2, "Westminster Bridge", 310)>> }
\* Failures of the geosearch request that return None (src/app.py:41-53).
SearchFailures == {"api_error", "timeout", "request_failed", "http_error",
                   "bad_json"}
\* Outcomes of the OpenAI request (src/app.py:64-86).
SummaryOutcomes == {"ok", "timeout", "error"}

EmptyDict == [x \in {} |-> None]
Put(d, key, v) == [x \in DOMAIN d \cup {key} |-> IF x = key THEN v ELSE d[x]]
Drop(d, key) == [x \in DOMAIN d \ {key} |-> d[x]]
Bump(n) == IF n < CountCap THEN n + 1 ELSE n

\* Python truthiness of a value that is None or a non-empty dict or string.
Truthy(v) == v # None
HasKey(v, key) == key \in DOMAIN v

\* f"{x:.4f}" of a coordinate given in units of 1e-5 degree: the number of
\* 1e-4 degrees nearest to it.
Round4(x) == (x + 5) \div 10

-----------------------------------------------------------------------------
\* Status and error texts (src/app.py:97, 125, 135, 207, 213-214, 231-236, 250)
MsgPressStart == [text |-> "Press 'Start Tracking' to begin."]
MsgInitiating == [text |-> "Initiating location tracking..."]
MsgStoppedByUser == [text |-> "Tracking stopped by user."]
MsgStoppedError == [text |-> "Tracking stopped due to location error."]
MsgWaitingData == [text |-> "Waiting for browser location permission/data..."]
MsgAcquired(loc) == [text |-> "Location acquired. Searching Wikipedia...",
                     lat |-> Round4(loc.latitude), lon |-> Round4(loc.longitude)]
MsgNoPages == [text |-> "No pages found. Waiting...",
               radius |-> SEARCH_RADIUS_METERS, wait |-> REFRESH_INTERVAL_SECONDS]
MsgFound(n) == [text |-> "Found page(s). Waiting...", count |-> n,
                wait |-> REFRESH_INTERVAL_SECONDS]
MsgSearchError == [text |-> "Error searching Wikipedia. Waiting...",
                   wait |-> REFRESH_INTERVAL_SECONDS]
GeolocationErrorText(data) ==
    [text |-> "Geolocation Error. Tracking stopped.",
     message |-> data.error.message, code |-> data.error.code]

\* get_openai_summary's body (src/app.py:61-86) for one outcome of the request.
DisabledNotice == [text |-> "OpenAI summarization disabled (API key missing)."]
SummaryText(title) == [summary_of |-> title]
SummaryBody_AbsentWhenDisabled(title, enabled, outcome) ==
    IF ~enabled THEN None
    ELSE IF outcome = "ok" THEN SummaryText(title)
    ELSE None
SummaryBody(title, enabled, outcome) ==
    IF ~enabled THEN DisabledNotice
    ELSE IF outcome = "ok" THEN SummaryText(title)
    ELSE None
\* Whether the body sends a request to the provider.
SummaryRequests(enabled) == enabled

-----------------------------------------------------------------------------
Init ==
    /\ running = FALSE
    /\ last_location = None
    /\ last_results = <<>>
    /\ status_message = MsgPressStart
    /\ error_message = None
    /\ summaries = EmptyDict
    /\ status_updated = FALSE
    /\ openai_enabled \in BOOLEAN
    /\ memo = EmptyDict
    /\ location_data = None
    /\ mounted = FALSE
    /\ pc = "idle"
    /\ k = 1
    /\ i = 0
    /\ click = "none"
    /\ rerun_requested = FALSE
    /\ start_disabled = FALSE
    /\ stop_disabled = TRUE
    /\ calls = {}
    /\ returned = NoCall
    /\ deliv_searches = 0
    /\ searches_since_reset = 0
    /\ stale_titles = {}
    /\ stale_ids = {}
    /\ fetched = {}
    /\ cycle_resolved = TRUE
    /\ search_log = <<>>

\* No click and no component value is waiting: the script passes the call.
NoRequest == click = "none" /\ ~rerun_requested

-----------------------------------------------------------------------------
\* The browser and the cache, which act on their own schedule.

\* The user clicks a button that is rendered enabled.
ClickStart ==
    /\ ~start_disabled /\ click = "none"
    /\ click' = "start"
    /\ calls' = {} /\ returned' = NoCall
    /\ UNCHANGED <<session, openai_enabled, memo, location_data, mounted, pc, k, i,
                   rerun_requested, start_disabled, stop_disabled,
                   deliv_searches, searches_since_reset>>
    /\ UNCHANGED stale
    /\ UNCHANGED audit

ClickStop ==
    /\ ~stop_disabled /\ click = "none"
    /\ click' = "stop"
    /\ calls' = {} /\ returned' = NoCall
    /\ UNCHANGED <<session, openai_enabled, memo, location_data, mounted, pc, k, i,
                   rerun_requested, start_disabled, stop_disabled,
                   deliv_searches, searches_since_reset>>
    /\ UNCHANGED stale
    /\ UNCHANGED audit

\* The geolocation component, while shown, sets its value (a fix or an error,
\* possibly the value it already has) and asks for a rerun.
Deliver(v) ==
    /\ mounted
    /\ location_data' = v
    /\ rerun_requested' = TRUE
    /\ deliv_searches' = 0
    /\ calls' = {} /\ returned' = NoCall
    /\ UNCHANGED <<session, openai_enabled, memo, mounted, pc, k, i,
                   click, start_disabled, stop_disabled, searches_since_reset>>
    /\ UNCHANGED stale
    /\ UNCHANGED audit

\* An entry of st.cache_data reaches its ttl (src/app.py:56).
ExpireMemo(title) ==
    /\ title \in DOMAIN memo
    /\ memo' = Drop(memo, title)
    /\ calls' = {} /\ returned' = NoCall
    /\ UNCHANGED <<session, openai_enabled, location_data, mounted, pc, k, i,
                   browser, deliv_searches, searches_since_reset>>
    /\ stale_titles' = stale_titles \ {title} /\ UNCHANGED stale_ids
    /\ UNCHANGED audit

\* A pending click or component value stops the script at the element call it
\* has reached, or finds it finished, and the script starts again.
Rerun ==
    /\ pc # "buttons"
    /\ ~NoRequest
    /\ pc' = "buttons" /\ k' = 1 /\ i' = 0
    /\ calls' = {} /\ returned' = NoCall
    /\ UNCHANGED <<session, openai_enabled, memo, location_data, mounted,
                   browser, deliv_searches, searches_since_reset>>
    /\ UNCHANGED stale
    /\ UNCHANGED audit

-----------------------------------------------------------------------------
\* Control buttons (src/app.py:121-137)

\* The Start handler without lines 128-129.
StartButton_KeepsSession ==
    /\ pc = "buttons" /\ click = "start"
    /\ start_disabled' = running
    /\ running' = TRUE
    /\ status_message' = MsgInitiating
    /\ error_message' = None
    /\ last_results' = <<>>
    /\ click' = "none" /\ rerun_requested' = FALSE
    /\ pc' = "buttons"
    /\ calls' = {} /\ returned' = NoCall
    /\ UNCHANGED <<last_location, summaries, status_updated, openai_enabled, memo,
                   location_data, mounted, k, i, stop_disabled, deliv_searches,
                   searches_since_reset, stale>>
    /\ fetched' = {}
    /\ cycle_resolved' = TRUE
    /\ UNCHANGED search_log

\* The Start handler without line 126.
StartButton_KeepsError ==
    /\ pc = "buttons" /\ click = "start"
    /\ start_disabled' = running
    /\ running' = TRUE
    /\ status_message' = MsgInitiating
    /\ error_message' = error_message
    /\ last_results' = <<>>
    /\ last_location' = None
    /\ summaries' = EmptyDict
    /\ click' = "none" /\ rerun_requested' = FALSE
    /\ pc' = "buttons"
    /\ calls' = {} /\ returned' = NoCall
    /\ UNCHANGED <<status_updated, openai_enabled, memo, location_data, mounted,
                   k, i, stop_disabled, deliv_searches, searches_since_reset>>
    /\ stale_ids' = {} /\ UNCHANGED stale_titles
    /\ fetched' = {}
    /\ cycle_resolved' = TRUE
    /\ UNCHANGED search_log

\* Start Tracking was clicked: st.button returns True.
StartButton ==
    /\ pc = "buttons" /\ click = "start"
    /\ start_disabled' = running
    /\ running' = TRUE
    /\ status_message' = MsgInitiating
    /\ error_message' = None
    /\ last_results' = <<>>
    /\ last_location' = None
    /\ summaries' = EmptyDict
    /\ click' = "none" /\ rerun_requested' = FALSE
    /\ pc' = "buttons"
    /\ calls' = {} /\ returned' = NoCall
    /\ UNCHANGED <<status_updated, openai_enabled, memo, location_data, mounted,
                   k, i, stop_disabled, deliv_searches, searches_since_reset>>
    /\ stale_ids' = {} /\ UNCHANGED stale_titles
    /\ fetched' = {}
    /\ cycle_resolved' = TRUE
    /\ UNCHANGED search_log

\* The Stop handler also clears the results.
StopButton_ClearsResults ==
    /\ pc = "buttons" /\ click = "stop"
    /\ start_disabled' = running
    /\ stop_disabled' = ~running
    /\ running' = FALSE
    /\ status_message' = MsgStoppedByUser
    /\ error_message' = None
    /\ last_results' = <<>>
    /\ click' = "none" /\ rerun_requested' = FALSE
    /\ pc' = "buttons"
    /\ calls' = {} /\ returned' = NoCall
    /\ UNCHANGED <<last_location, summaries, status_updated,
                   openai_enabled, memo, location_data, mounted, k, i,
                   deliv_searches, searches_since_reset, stale>>
    /\ UNCHANGED fetched
    /\ cycle_resolved' = TRUE
    /\ UNCHANGED search_log

\* Stop Tracking was clicked: both buttons are rendered, the second returns True.
StopButton ==
    /\ pc = "buttons" /\ click = "stop"
    /\ start_disabled' = running
    /\ stop_disabled' = ~running
    /\ running' = FALSE
    /\ status_message' = MsgStoppedByUser
    /\ error_message' = None
    /\ click' = "none" /\ rerun_requested' = FALSE
    /\ pc' = "buttons"
    /\ calls' = {} /\ returned' = NoCall
    /\ UNCHANGED <<last_location, last_results, summaries, status_updated,
                   openai_enabled, memo, location_data, mounted, k, i,
                   deliv_searches, searches_since_reset>>
    /\ UNCHANGED stale
    /\ UNCHANGED fetched
    /\ cycle_resolved' = TRUE
    /\ UNCHANGED search_log

\* The buttons rendered with the Stop button never disabled.
RenderButtons_StopAlwaysEnabled ==
    /\ pc = "buttons" /\ click = "none"
    /\ start_disabled' = running
    /\ stop_disabled' = FALSE
    /\ rerun_requested' = FALSE
    /\ pc' = "display" /\ k' = 1
    /\ calls' = {} /\ returned' = NoCall
    /\ UNCHANGED <<session, openai_enabled, memo, location_data, mounted, i,
                   click, deliv_searches, searches_since_reset>>
    /\ UNCHANGED stale
    /\ UNCHANGED audit

\* No click: both buttons are rendered and the script goes on to the display.
RenderButtons ==
    /\ pc = "buttons" /\ click = "none"
    /\ start_disabled' = running
    /\ stop_disabled' = ~running
    /\ rerun_requested' = FALSE
    /\ pc' = "display" /\ k' = 1
    /\ calls' = {} /\ returned' = NoCall
    /\ UNCHANGED <<session, openai_enabled, memo, location_data, mounted, i,
                   click, deliv_searches, searches_since_reset>>
    /\ UNCHANGED stale
    /\ UNCHANGED audit

-----------------------------------------------------------------------------
\* get_openai_summary with its st.cache_data decorator (src/app.py:56-86): a
\* stored entry for the title is returned without running the body.
get_openai_summary(title, outcome) ==
    IF title \in DOMAIN memo THEN memo[title]
    ELSE SummaryBody(title, openai_enabled, outcome)

\* Results display (src/app.py:158-194), one page of last_results per step.
InResultsLoop == pc = "display" /\ NoRequest /\ k <= Len(last_results)

\* The summary of the page is in st.session_state.summaries (lines 174-179).
ShowStoredSummary ==
    /\ InResultsLoop
    /\ last_results[k].pageid \in DOMAIN summaries
    /\ k' = k + 1
    /\ calls' = {} /\ returned' = NoCall
    /\ UNCHANGED <<session, openai_enabled, memo, location_data, mounted, pc, i,
                   browser, deliv_searches, searches_since_reset>>
    /\ UNCHANGED stale
    /\ UNCHANGED audit

\* Lines 180-187, get_openai_summary answers from st.cache_data.
ReuseSummary ==
    /\ InResultsLoop
    /\ last_results[k].pageid \notin DOMAIN summaries
    /\ openai_enabled
    /\ last_results[k].title \in DOMAIN memo
    /\ LET summary == get_openai_summary(last_results[k].title, "ok")
       IN  /\ summaries' = Put(summaries, last_results[k].pageid, summary)
           /\ returned' = summary
    /\ k' = k + 1
    /\ calls' = {}
    /\ UNCHANGED <<running, last_location, last_results, status_message,
                   error_message, status_updated, openai_enabled, memo,
                   location_data, mounted, pc, i, browser,
                   deliv_searches, searches_since_reset>>
    /\ stale_ids' = IF last_results[k].title \in stale_titles
                    THEN stale_ids \cup {last_results[k].pageid} ELSE stale_ids
    /\ UNCHANGED stale_titles
    /\ fetched' = fetched \cup {last_results[k].pageid}
    /\ UNCHANGED cycle_resolved
    /\ UNCHANGED search_log

\* Lines 180-187, get_openai_summary runs its body.  A successful request
\* returns at once; a failed one reaches st.warning (lines 80, 84) first.
RequestSummary(outcome) ==
    /\ InResultsLoop
    /\ last_results[k].pageid \notin DOMAIN summaries
    /\ openai_enabled
    /\ last_results[k].title \notin DOMAIN memo
    /\ calls' = {"summary"}
    /\ IF outcome = "ok"
       THEN LET summary == get_openai_summary(last_results[k].title, outcome)
            IN  /\ memo' = Put(memo, last_results[k].title, summary)
                /\ summaries' = Put(summaries, last_results[k].pageid, summary)
                /\ returned' = summary
                /\ k' = k + 1
                /\ pc' = pc
       ELSE /\ pc' = "summary_warning"
            /\ returned' = NoCall
            /\ UNCHANGED <<memo, summaries, k>>
    /\ UNCHANGED <<running, last_location, last_results, status_message,
                   error_message, status_updated, openai_enabled,
                   location_data, mounted, i, browser,
                   deliv_searches, searches_since_reset>>
    /\ UNCHANGED stale
    /\ fetched' = fetched \cup {last_results[k].pageid}
    /\ UNCHANGED cycle_resolved
    /\ UNCHANGED search_log

\* A failed request whose None is not stored.
SummaryWarned_NotStored ==
    /\ pc = "summary_warning" /\ NoRequest
    /\ LET summary == get_openai_summary(last_results[k].title, "error")
       IN  /\ returned' = summary
           /\ UNCHANGED <<memo, summaries>>
    /\ pc' = "display" /\ k' = k + 1
    /\ calls' = {}
    /\ UNCHANGED <<running, last_location, last_results, status_message,
                   error_message, status_updated, openai_enabled,
                   location_data, mounted, i, browser,
                   deliv_searches, searches_since_reset>>
    /\ UNCHANGED stale
    /\ UNCHANGED audit

\* The failed request returns None, which is cached and stored (lines 81, 86, 183).
SummaryWarned ==
    /\ pc = "summary_warning" /\ NoRequest
    /\ LET summary == get_openai_summary(last_results[k].title, "error")
       IN  /\ memo' = Put(memo, last_results[k].title, summary)
           /\ summaries' = Put(summaries, last_results[k].pageid, summary)
           /\ returned' = summary
    /\ pc' = "display" /\ k' = k + 1
    /\ calls' = {}
    /\ UNCHANGED <<running, last_location, last_results, status_message,
                   error_message, status_updated, openai_enabled,
                   location_data, mounted, i, browser,
                   deliv_searches, searches_since_reset>>
    /\ UNCHANGED stale
    /\ UNCHANGED audit

\* Lines 188-189: no stored summary and OpenAI is off.
ShowDisabled ==
    /\ InResultsLoop
    /\ last_results[k].pageid \notin DOMAIN summaries
    /\ ~openai_enabled
    /\ k' = k + 1
    /\ calls' = {} /\ returned' = NoCall
    /\ UNCHANGED <<session, openai_enabled, memo, location_data, mounted, pc, i,
                   browser, deliv_searches, searches_since_reset>>
    /\ UNCHANGED stale
    /\ UNCHANGED audit

AfterDisplay == pc = "display" /\ NoRequest /\ k > Len(last_results)

\* Line 198 with running True: the script reaches the geolocation component.
EnterLoop ==
    /\ AfterDisplay /\ running
    /\ pc' = "poll" /\ k' = 1
    /\ calls' = {} /\ returned' = NoCall
    /\ UNCHANGED <<session, openai_enabled, memo, location_data, mounted, i,
                   browser, deliv_searches, searches_since_reset>>
    /\ UNCHANGED stale
    /\ UNCHANGED audit

\* Line 198 with running False: the script ends at the footer (lines 254-256).
\* The component was not called in this run, so it is removed and its value
\* is dropped.
EndRun ==
    /\ AfterDisplay /\ ~running
    /\ pc' = "idle" /\ k' = 1
    /\ mounted' = FALSE
    /\ location_data' = None
    /\ deliv_searches' = 0
    /\ calls' = {} /\ returned' = NoCall
    /\ UNCHANGED <<session, openai_enabled, memo, i, browser, searches_since_reset>>
    /\ UNCHANGED stale
    /\ UNCHANGED audit

-----------------------------------------------------------------------------
\* Main execution loop (src/app.py:198-251)

\* The tests of lines 203 and 212 on the component's value.
IsFix(v) == Truthy(v) /\ HasKey(v, "latitude") /\ HasKey(v, "longitude")
IsError(v) == ~IsFix(v) /\ Truthy(v) /\ HasKey(v, "error")

\* Answers of the Wikipedia API whose body, when it decodes, is the JSON
\* object the API documents, and what get_nearby_wikipedia_pages returns for
\* each (src/app.py:37-53): the list of pages, or None.
Responses == {[outcome |-> "ok", geosearch |-> rs] : rs \in ResultSets}
             \cup {[outcome |-> f] : f \in SearchFailures}
\* Bodies of a 200 answer that are JSON but not an object: for a list the
\* .get of line 44 raises AttributeError, for null the test of line 41 raises
\* TypeError, and no except clause of lines 45-53 catches either.
ForeignBodies == {"json_array", "json_null"}
Raised(exception) == [kind |-> "raised", exception |-> exception]
get_nearby_wikipedia_pages(response) ==
    IF response.outcome = "ok" THEN [pages |-> response.geosearch]
    ELSE IF response.outcome = "json_array" THEN Raised("AttributeError")
    ELSE IF response.outcome = "json_null" THEN Raised("TypeError")
    ELSE None

\* Lines 227-237 without line 226: the summaries of the last Result Set stay.
ApplySearch_KeepSummaries(nearby_pages) ==
    /\ summaries' = summaries
    /\ IF nearby_pages # None
       THEN /\ last_results' = nearby_pages.pages
            /\ status_message' = IF nearby_pages.pages = <<>>
                                 THEN MsgNoPages
                                 ELSE MsgFound(Len(nearby_pages.pages))
       ELSE /\ status_message' = MsgSearchError
            /\ last_results' = <<>>

\* Lines 227-237 with line 226 moved under "is not None".
ApplySearch_ErrorKeepsSummaries(nearby_pages) ==
    /\ summaries' = IF nearby_pages # None THEN EmptyDict ELSE summaries
    /\ IF nearby_pages # None
       THEN /\ last_results' = nearby_pages.pages
            /\ status_message' = IF nearby_pages.pages = <<>>
                                 THEN MsgNoPages
                                 ELSE MsgFound(Len(nearby_pages.pages))
       ELSE /\ status_message' = MsgSearchError
            /\ last_results' = <<>>

\* Lines 226-237: the search outcome is stored.
ApplySearch(nearby_pages) ==
    /\ summaries' = EmptyDict
    /\ IF nearby_pages # None
       THEN /\ last_results' = nearby_pages.pages
            /\ status_message' = IF nearby_pages.pages = <<>>
                                 THEN MsgNoPages
                                 ELSE MsgFound(Len(nearby_pages.pages))
       ELSE /\ status_message' = MsgSearchError
            /\ last_results' = <<>>

AtPoll == pc = "poll" /\ NoRequest

\* Lines 203-210: a fix and status_updated not set: store it and rerun.
FixAcquired ==
    /\ AtPoll /\ IsFix(location_data) /\ ~status_updated
    /\ mounted' = TRUE
    /\ last_location' = location_data
    /\ error_message' = None
    /\ status_message' = MsgAcquired(location_data)
    /\ status_updated' = TRUE
    /\ pc' = "buttons"
    /\ calls' = {"poll"} /\ returned' = NoCall
    /\ UNCHANGED <<running, last_results, summaries, openai_enabled, memo,
                   location_data, k, i, browser, deliv_searches,
                   searches_since_reset>>
    /\ UNCHANGED stale
    /\ UNCHANGED audit

\* Lines 203-207 and 220-240: a fix and status_updated set: the search is
\* made and answered with pages; the outcome is stored and the wait begins.
SearchOk(response) ==
    /\ AtPoll /\ IsFix(location_data) /\ status_updated
    /\ response.outcome = "ok"
    /\ mounted' = TRUE
    /\ last_location' = location_data
    /\ error_message' = None
    /\ ApplySearch(get_nearby_wikipedia_pages(response))
    /\ pc' = "countdown" /\ i' = REFRESH_INTERVAL_SECONDS
    /\ calls' = {"poll", "geosearch"} /\ returned' = NoCall
    /\ deliv_searches' = Bump(deliv_searches)
    /\ searches_since_reset' = Bump(searches_since_reset)
    /\ UNCHANGED <<running, status_updated, openai_enabled, memo, location_data,
                   k, browser>>
    /\ stale_titles' = DOMAIN memo /\ stale_ids' = {}
    /\ fetched' = {}
    /\ cycle_resolved' = FALSE
    /\ UNCHANGED search_log

\* Lines 203-207 and 220-223: the search is made and fails; the function
\* reaches its st.error (lines 42, 46, 49, 52).
SearchFail(response) ==
    /\ AtPoll /\ IsFix(location_data) /\ status_updated
    /\ response.outcome # "ok"
    /\ mounted' = TRUE
    /\ last_location' = location_data
    /\ error_message' = None
    /\ status_message' = MsgAcquired(location_data)
    /\ pc' = "search_error"
    /\ calls' = {"poll", "geosearch"} /\ returned' = NoCall
    /\ deliv_searches' = Bump(deliv_searches)
    /\ searches_since_reset' = Bump(searches_since_reset)
    /\ UNCHANGED <<running, last_results, summaries, status_updated,
                   openai_enabled, memo, location_data, k, i, browser>>
    /\ UNCHANGED stale
    /\ UNCHANGED fetched
    /\ cycle_resolved' = FALSE
    /\ UNCHANGED search_log

\* The failed search stops tracking, as a position error does.
SearchFailed_Fatal ==
    /\ pc = "search_error" /\ NoRequest
    /\ summaries' = EmptyDict
    /\ last_results' = <<>>
    /\ status_message' = MsgSearchError
    /\ running' = FALSE
    /\ pc' = "buttons" /\ i' = 0
    /\ calls' = {} /\ returned' = NoCall
    /\ stale_titles' = DOMAIN memo /\ stale_ids' = {}
    /\ UNCHANGED <<last_location, error_message, status_updated,
                   openai_enabled, memo, location_data, mounted, k, browser,
                   deliv_searches, searches_since_reset>>
    /\ fetched' = {}
    /\ UNCHANGED cycle_resolved
    /\ UNCHANGED search_log

\* The failed search returns None; lines 226-240.
SearchFailed ==
    /\ pc = "search_error" /\ NoRequest
    /\ ApplySearch(get_nearby_wikipedia_pages([outcome |-> "request_failed"]))
    /\ pc' = "countdown" /\ i' = REFRESH_INTERVAL_SECONDS
    /\ calls' = {} /\ returned' = NoCall
    /\ UNCHANGED <<running, last_location, error_message, status_updated,
                   openai_enabled, memo, location_data, mounted, k, browser,
                   deliv_searches, searches_since_reset>>
    /\ stale_titles' = DOMAIN memo /\ stale_ids' = {}
    /\ fetched' = {}
    /\ UNCHANGED cycle_resolved
    /\ UNCHANGED search_log

\* Lines 213-217 without line 215: tracking stays on after the error.
PositionError_KeepsRunning ==
    /\ AtPoll /\ IsError(location_data)
    /\ mounted' = TRUE
    /\ error_message' = GeolocationErrorText(location_data)
    /\ status_message' = MsgStoppedError
    /\ status_updated' = FALSE
    /\ searches_since_reset' = 0
    /\ pc' = "buttons"
    /\ calls' = {"poll"} /\ returned' = NoCall
    /\ UNCHANGED <<running, last_location, last_results, summaries,
                   openai_enabled, memo, location_data, k, i, browser,
                   deliv_searches, stale>>
    /\ UNCHANGED audit

\* Lines 212-217: the component reports an error.
PositionError ==
    /\ AtPoll /\ IsError(location_data)
    /\ mounted' = TRUE
    /\ error_message' = GeolocationErrorText(location_data)
    /\ status_message' = MsgStoppedError
    /\ running' = FALSE
    /\ status_updated' = FALSE
    /\ searches_since_reset' = 0
    /\ pc' = "buttons"
    /\ calls' = {"poll"} /\ returned' = NoCall
    /\ UNCHANGED <<last_location, last_results, summaries, openai_enabled, memo,
                   location_data, k, i, browser, deliv_searches>>
    /\ UNCHANGED stale
    /\ UNCHANGED audit

\* A poll without data that gives up: tracking is turned off.
NoDataYet_TimesOut ==
    /\ AtPoll /\ ~Truthy(location_data)
    /\ mounted' = TRUE
    /\ status_message' = MsgWaitingData
    /\ running' = FALSE
    /\ pc' = "idle"
    /\ calls' = {"poll"} /\ returned' = NoCall
    /\ UNCHANGED <<last_location, last_results, error_message, summaries,
                   status_updated, openai_enabled, memo, location_data, k, i,
                   browser, deliv_searches, searches_since_reset>>
    /\ UNCHANGED stale
    /\ UNCHANGED audit

\* Lines 249-256: no value yet; the script ends and the component will rerun it.
NoDataYet ==
    /\ AtPoll /\ ~Truthy(location_data)
    /\ mounted' = TRUE
    /\ status_message' = MsgWaitingData
    /\ pc' = "idle"
    /\ calls' = {"poll"} /\ returned' = NoCall
    /\ UNCHANGED <<running, last_location, last_results, error_message, summaries,
                   status_updated, openai_enabled, memo, location_data, k, i,
                   browser, deliv_searches, searches_since_reset>>
    /\ UNCHANGED stale
    /\ UNCHANGED audit

\* The countdown as one sleep that no click can end.
CountdownTick_Uninterruptible ==
    /\ pc = "countdown" /\ i > 0
    /\ i' = i - 1
    /\ calls' = {} /\ returned' = NoCall
    /\ UNCHANGED <<session, openai_enabled, memo, location_data, mounted, pc, k,
                   browser, deliv_searches, searches_since_reset, stale>>
    /\ UNCHANGED audit

\* Lines 241-243: one pass of the countdown loop (write, sleep one second).
CountdownTick ==
    /\ pc = "countdown" /\ NoRequest /\ i > 0
    /\ i' = i - 1
    /\ calls' = {} /\ returned' = NoCall
    /\ UNCHANGED <<session, openai_enabled, memo, location_data, mounted, pc, k,
                   browser, deliv_searches, searches_since_reset>>
    /\ UNCHANGED stale
    /\ UNCHANGED audit

\* The countdown is over and the script ends without asking for a rerun.
CountdownDone_NoRerun ==
    /\ pc = "countdown" /\ NoRequest /\ i = 0
    /\ status_updated' = FALSE
    /\ searches_since_reset' = 0
    /\ pc' = "idle"
    /\ calls' = {} /\ returned' = NoCall
    /\ UNCHANGED <<running, last_location, last_results, status_message,
                   error_message, summaries, openai_enabled, memo, location_data,
                   mounted, k, i, browser, deliv_searches>>
    /\ UNCHANGED stale
    /\ UNCHANGED fetched
    /\ cycle_resolved' = TRUE
    /\ UNCHANGED search_log

\* Lines 244-247: the countdown is over.
CountdownDone ==
    /\ pc = "countdown" /\ NoRequest /\ i = 0
    /\ status_updated' = FALSE
    /\ searches_since_reset' = 0
    /\ pc' = "buttons"
    /\ calls' = {} /\ returned' = NoCall
    /\ UNCHANGED <<running, last_location, last_results, status_message,
                   error_message, summaries, openai_enabled, memo, location_data,
                   mounted, k, i, browser, deliv_searches>>
    /\ UNCHANGED stale
    /\ UNCHANGED fetched
    /\ cycle_resolved' = TRUE
    /\ UNCHANGED search_log

-----------------------------------------------------------------------------
Next ==
    \/ ClickStart
    \/ ClickStop
    \/ \E v \in Fixes \cup FixErrors : Deliver(v)
    \/ \E title \in DOMAIN memo : ExpireMemo(title)
    \/ Rerun
    \/ StartButton
    \/ StopButton
    \/ RenderButtons
    \/ ShowStoredSummary
    \/ ReuseSummary
    \/ \E outcome \in SummaryOutcomes : RequestSummary(outcome)
    \/ SummaryWarned
    \/ ShowDisabled
    \/ EnterLoop
    \/ EndRun
    \/ FixAcquired
    \/ \E response \in Responses : SearchOk(response)
    \/ \E response \in Responses : SearchFail(response)
    \/ SearchFailed
    \/ PositionError
    \/ NoDataYet
    \/ CountdownTick
    \/ CountdownDone

Spec == Init /\ [][Next]_vars

-----------------------------------------------------------------------------
\* get_openai_summary on its own: any title, under either configuration,
\* with any outcome of the request, and with entries of the cache expiring.
Titles == {"Big Ben", "Elizabeth Tower", "Westminster Bridge"}

CallSummary(title, outcome) ==
    /\ returned' = get_openai_summary(title, outcome)
    /\ memo' = IF title \in DOMAIN memo THEN memo ELSE Put(memo, title, returned')
    /\ calls' = IF title \notin DOMAIN memo /\ SummaryRequests(openai_enabled)
              THEN {"summary"} ELSE {}
    /\ UNCHANGED <<session, openai_enabled, location_data, mounted, pc, k, i,
                   browser, deliv_searches, searches_since_reset, stale>>
    /\ UNCHANGED audit

NextSummary ==
    \/ \E title \in Titles, outcome \in SummaryOutcomes : CallSummary(title, outcome)
    \/ \E title \in DOMAIN memo : ExpireMemo(title)

SpecSummary == Init /\ [][NextSummary]_vars

-----------------------------------------------------------------------------
\* get_nearby_wikipedia_pages on its own: called up to MaxSearchCalls times,
\* each time with any answer to requests.get, the bodies that are JSON but
\* not an object included.
MaxSearchCalls == 2
SearchResponses == Responses \cup {[outcome |-> b] : b \in ForeignBodies}

CallSearch(response) ==
    /\ Len(search_log) < MaxSearchCalls
    /\ search_log' = Append(search_log,
                            [response |-> response,
                             returned |-> get_nearby_wikipedia_pages(response)])
    /\ calls' = {"geosearch"} /\ returned' = NoCall
    /\ UNCHANGED <<session, openai_enabled, memo, location_data, mounted, pc, k, i,
                   browser, deliv_searches, searches_since_reset, stale,
                   fetched, cycle_resolved>>

NextSearch == \E response \in SearchResponses : CallSearch(response)

SpecSearch == Init /\ [][NextSearch]_vars

-----------------------------------------------------------------------------
\* The script with a browser that acts only between two executions of the
\* script: no click and no component value arrives while the script runs.
\* A script that has a next statement to execute executes it (time.sleep(1)
\* returns, the requests have timeouts), hence the weak fairness.
ScriptStep ==
    \/ Rerun \/ StartButton \/ StopButton \/ RenderButtons
    \/ ShowStoredSummary \/ ReuseSummary
    \/ \E outcome \in SummaryOutcomes : RequestSummary(outcome)
    \/ SummaryWarned \/ ShowDisabled \/ EnterLoop \/ EndRun \/ FixAcquired
    \/ \E response \in Responses : SearchOk(response)
    \/ \E response \in Responses : SearchFail(response)
    \/ SearchFailed \/ PositionError \/ NoDataYet \/ CountdownTick \/ CountdownDone

QuietBrowser ==
    /\ pc = "idle"
    /\ \/ ClickStart
       \/ ClickStop
       \/ \E v \in Fixes \cup FixErrors : Deliver(v)

NextQuiet ==
    \/ QuietBrowser
    \/ \E title \in DOMAIN memo : ExpireMemo(title)
    \/ ScriptStep

SpecQuiet == Init /\ [][NextQuiet]_vars /\ WF_vars(ScriptStep)

-----------------------------------------------------------------------------
\* C1: a search is made only while running is True, and no value delivered
\* by the position source is used by two searches.
C1_SearchConsumesNewFix ==
    /\ ("geosearch" \in calls => running)
    /\ deliv_searches <= 1

\* C2: between two resets of status_updated to False,
\* get_nearby_wikipedia_pages is called at most once.
C2_OneSearchPerFlagPeriod == searches_since_reset <= 1

\* A search has completed in this step: its outcome was stored and the
\* countdown begins.
SearchCompletes == pc # "countdown" /\ pc' = "countdown"

\* C3 as stated: no entry of summaries of the current Result Set holds a
\* summary that was produced before this Result Set was stored, the cache of
\* get_openai_summary included.
C3_NoPriorSummaryVisible == stale_ids = {}

\* C3 as amended: every completed search empties summaries; every entry of
\* summaries belongs to a page of the current Result Set and is None or the
\* summary of that page's current title; and an earlier summary enters
\* summaries only from the st.cache_data entry of the page's own title.
SummariesOfCurrentResults ==
    \A id \in DOMAIN summaries :
        \E j \in 1..Len(last_results) :
            /\ last_results[j].pageid = id
            /\ summaries[id] \in {None, SummaryText(last_results[j].title)}
C3_SessionSummariesCleared ==
    /\ []SummariesOfCurrentResults
    /\ [][SearchCompletes => summaries' = EmptyDict]_vars
    /\ [][\A id \in stale_ids' \ stale_ids :
            \E j \in 1..Len(last_results) :
                /\ last_results[j].pageid = id
                /\ last_results[j].title \in DOMAIN memo
                /\ summaries'[id] = memo[last_results[j].title]]_vars

\* Scenario D: page 1 was summarised as "Big Ben" before, and now carries the
\* summary of its new title.
C3_Witness ==
    /\ 1 \in DOMAIN summaries
    /\ summaries[1] = SummaryText("Elizabeth Tower")
    /\ "Big Ben" \in DOMAIN memo
    /\ memo["Big Ben"] = SummaryText("Big Ben")

\* C4 as stated: with OpenAI disabled get_openai_summary returns None for
\* every title and sends no request.
C4_DisabledReturnsAbsent ==
    ~openai_enabled => (returned \in {NoCall, None} /\ "summary" \notin calls)

\* C4 as amended: with OpenAI disabled get_openai_summary returns its fixed
\* notice text, which is not None, for every title, and sends no request.
C4_DisabledReturnsNotice ==
    ~openai_enabled =>
        /\ returned \in {NoCall, DisabledNotice}
        /\ DisabledNotice # None
        /\ "summary" \notin calls

C4_Witness == ~openai_enabled /\ returned = DisabledNotice /\ DOMAIN memo = Titles

\* Steps of the script, told from the steps of the browser.
PollsError == "poll" \in calls' /\ IsError(location_data)
StopHandled == pc = "buttons" /\ click = "stop" /\ click' = "none"
StartHandled == pc = "buttons" /\ click = "start" /\ click' = "none"

\* C5: a position error polled while tracking turns tracking off, puts the
\* adapter's message and code into the error text and sets the 'stopped due
\* to location error' status; once rendered, the Start control of a stopped
\* session is enabled; the position source is polled and a search is made
\* only while running, and only the Start handler turns running on.
C5_PositionErrorIsFatal ==
    /\ [][PollsError =>
            /\ running /\ ~running'
            /\ error_message'.message = location_data.error.message
            /\ error_message'.code = location_data.error.code
            /\ status_message' = MsgStoppedError]_vars
    /\ []((~running /\ pc # "buttons") => ~start_disabled)
    /\ [][calls' \cap {"poll", "geosearch"} # {} => running]_vars
    /\ [][(~running /\ running') => StartHandled]_vars

\* Scenario C: the session stopped on error code 1 and Start is enabled.
C5_Witness ==
    /\ ~running /\ pc = "idle"
    /\ status_message = MsgStoppedError
    /\ error_message # None
    /\ error_message.code = 1
    /\ error_message.message = "User denied Geolocation"
    /\ ~start_disabled /\ stop_disabled

\* C6: when the search returns None the Result Set becomes empty, the status
\* reports the search error, the error text stays None and running stays
\* True; running is turned off only by a position error or the Stop handler.
C6_SearchErrorNotFatal ==
    /\ [][(pc = "search_error" /\ pc' # "search_error" /\ click' = "none"
             /\ ~rerun_requested') =>
            /\ last_results' = <<>>
            /\ status_message' = MsgSearchError
            /\ error_message' = None
            /\ running /\ running'
            /\ pc' = "countdown" /\ i' = REFRESH_INTERVAL_SECONDS]_vars
    /\ [][(running /\ ~running') => (PollsError \/ StopHandled)]_vars

\* The search error replaced a Result Set, and the wait is running.
C6_Witness ==
    /\ running /\ pc = "countdown" /\ i < REFRESH_INTERVAL_SECONDS
    /\ status_message = MsgSearchError
    /\ last_results = <<>> /\ error_message = None
    /\ stale_titles # {}

\* C7: from the Stop handler until the next Start, last_results,
\* last_location and summaries do not change and no geosearch or summary
\* request is sent.
C7_NothingAppliedAfterStop ==
    [][(~running /\ ~running' /\ status_message = MsgStoppedByUser) =>
         /\ UNCHANGED <<last_results, last_location, summaries>>
         /\ calls' \cap {"geosearch", "summary"} = {}]_vars

C9_StopEffect ==
    [][StopHandled =>
         /\ ~running'
         /\ status_message' = MsgStoppedByUser
         /\ error_message' = None
         /\ UNCHANGED <<last_location, last_results>>]_vars

\* Stopped by the user with a fix and a Result Set on display.
C9_Witness ==
    /\ ~running /\ status_message = MsgStoppedByUser
    /\ last_location # None /\ Len(last_results) = 2

\* C10: the Start handler turns running on, empties the Result Set and the
\* summaries, sets last_location and the error text to None and the status
\* to the 'initiating' message.
C10_StartResets ==
    [][StartHandled =>
         /\ running'
         /\ last_results' = <<>>
         /\ summaries' = EmptyDict
         /\ last_location' = None
         /\ error_message' = None
         /\ status_message' = MsgInitiating]_vars

\* A second session has started after one that produced summaries.
C10_Witness ==
    /\ running /\ status_message = MsgInitiating
    /\ DOMAIN memo # {} /\ summaries = EmptyDict /\ last_location = None

\* Steps of the browser: the user issues a command.
StartIssued == click = "none" /\ click' = "start"
StopIssued == click = "none" /\ click' = "stop"

\* C11 as stated: in every reachable state exactly one of the two controls
\* is enabled, Start exactly while running is False and Stop exactly while
\* running is True.
C11_ControlsMatchRunning ==
    /\ start_disabled = running
    /\ stop_disabled = ~running

\* C11: once the script has rendered both controls in its current run,
\* exactly one of them is enabled, Start exactly while running is False and
\* Stop exactly while running is True; a command is issued only on a control
\* shown enabled; a Start handled while already running and a Stop handled
\* after a Stop change no session state; a Stop handled after a position
\* error stopped the session replaces the error status and clears the error
\* text.
C11_RenderedControlsMatchRunning ==
    /\ [](pc # "buttons" => (start_disabled = running /\ stop_disabled = ~running))
    /\ [][StartIssued => ~start_disabled]_vars
    /\ [][StopIssued => ~stop_disabled]_vars
    /\ [][(StartHandled /\ running) => session' = session]_vars
    /\ [][(StopHandled /\ ~running /\ status_message = MsgStoppedByUser)
            => session' = session]_vars
    /\ [][(StopHandled /\ ~running /\ status_message # MsgStoppedByUser)
            => /\ status_message = MsgStoppedError
               /\ status_message' = MsgStoppedByUser
               /\ error_message' = None
               /\ UNCHANGED <<running, last_location, last_results, summaries,
                              status_updated>>]_vars

\* A second Start command reaches the script while the session is running.
C11_Witness ==
    /\ running /\ pc = "buttons" /\ click = "start"
    /\ status_message = MsgInitiating

\* A step of the display loop that calls get_openai_summary (line 182) for
\* the item at index k.
CallsSummary ==
    /\ InResultsLoop /\ openai_enabled
    /\ last_results[k].pageid \notin DOMAIN summaries
    /\ k' = k + 1 \/ pc' = "summary_warning"

\* C12: within one Result Set generation get_openai_summary is called at
\* most once for each item id, also when the request failed.
C12_FetchedOncePerItem ==
    [][CallsSummary => last_results[k].pageid \notin fetched]_vars

\* The ids of the items of the current Result Set, and the points of the
\* script at which the display pass over it has been completed.
ItemIds == {last_results[j].pageid : j \in 1..Len(last_results)}
PassCompleted ==
    \/ pc = "display" /\ k > Len(last_results)
    \/ pc \in {"poll", "search_error", "idle"}

\* C13 as stated: after a search the summaries are empty until the display
\* pass runs, and once the display pass over the Result Set has been
\* completed they hold exactly one entry for each item id.
C13_OneEntryPerItemAfterPass ==
    /\ pc = "countdown" => summaries = EmptyDict
    /\ PassCompleted => DOMAIN summaries = ItemIds

\* C13: after a search the summaries are empty until the display pass runs:
\* every entry was stored by a call of get_openai_summary made since the
\* Result Set was stored, belongs to an item of it and is absent or a text.
\* Once the display pass has been completed, with OpenAI enabled there is
\* exactly one entry for each item id, and with OpenAI disabled there is no
\* entry at all.
C13_EntriesAfterEnrichment ==
    /\ pc = "countdown" => summaries = EmptyDict
    /\ DOMAIN summaries \subseteq fetched
    /\ SummariesOfCurrentResults
    /\ PassCompleted =>
         DOMAIN summaries = IF openai_enabled THEN ItemIds ELSE {}

\* Two items were displayed; one has a text and the other is absent.
C13_Witness ==
    /\ openai_enabled /\ pc = "poll"
    /\ Len(last_results) = 2
    /\ DOMAIN summaries = {1, 2}
    /\ summaries[1] = SummaryText("Big Ben") /\ summaries[2] = None

\* C14: get_nearby_wikipedia_pages never raises: for every answer to the
\* request the caller receives a list of pages or None.
C14_ReturnsListOrNone ==
    \A j \in 1..Len(search_log) :
        \/ search_log[j].returned = None
        \/ HasKey(search_log[j].returned, "pages")

\* C15: between two consecutive geosearch calls of one tracking session (no
\* Stop or Start in between) the result of the first was applied and the
\* countdown of REFRESH_INTERVAL_SECONDS steps that followed it ran to its
\* end, after a successful search and after a failed one alike.
C15_CyclesSequential == [][("geosearch" \in calls') => cycle_resolved]_vars

\* A step of the script that polls the position source and gets no data.
PollsPending == "poll" \in calls' /\ ~Truthy(location_data)

\* C16: a poll that finds no data yet is not a failure: running stays True,
\* the error text stays absent, last_location, last_results, summaries and
\* status_updated are unchanged and only the status becomes 'Waiting for
\* browser location permission/data...'; the script then ends its run and
\* starts another one only on a click or a value of the component, so the
\* wait is never timed out.
C16_PendingIsNotFailure ==
    /\ [][PollsPending =>
            /\ running /\ running'
            /\ error_message = None /\ error_message' = None
            /\ UNCHANGED <<last_location, last_results, summaries, status_updated>>
            /\ status_message' = MsgWaitingData
            /\ pc' = "idle"]_vars
    /\ [][(pc = "idle" /\ pc' # "idle") => ~NoRequest]_vars

\* The session waits for the first value of the component.
C16_Witness ==
    /\ running /\ pc = "idle" /\ location_data = None
    /\ status_message = MsgWaitingData
    /\ error_message = None /\ last_location = None

WaitElapsed == pc = "countdown" /\ NoRequest /\ i = 0 /\ pc' = "buttons"

\* C18: status_updated is False whenever the session starts to wait for a
\* fix, after a Start and after the countdown has run to its end alike, so
\* that the first fix of the cycle is first shown as 'acquired, searching'.
C18_FlagFalseOnEntry ==
    [][(StartHandled \/ WaitElapsed) => ~status_updated']_vars

\* C19: every key of summaries is the id of an item of last_results.
C19_SummaryKeysAreItemIds == DOMAIN summaries \subseteq ItemIds

\* A rerun starts while only the first of two items has an entry.
C19_Witness ==
    /\ pc = "buttons" /\ Len(last_results) = 2
    /\ DOMAIN summaries = {1}

\* A step of the script that polls the position source and gets a fix.
PollsFix == "poll" \in calls' /\ IsFix(location_data)

\* C20: while error_message is set running is False: the error text is set
\* only by a step that leaves running False, and the Start handler, the
\* Stop handler and every poll that finds a fix clear it.
C20_ErrorImpliesStopped ==
    /\ [](error_message # None => ~running)
    /\ [][(error_message' # error_message /\ error_message' # None)
            => (PollsError /\ ~running')]_vars
    /\ [][(StartHandled \/ StopHandled \/ PollsFix) => error_message' = None]_vars

\* The session stopped on a position error and shows the error text.
C20_Witness ==
    /\ error_message # None /\ ~running /\ pc = "display"
    /\ error_message.code = 2

====
